---- MODULE Spec2Model ----
(***************************************************************************)
(* The monitor hub of tensorpack/callbacks/monitor.py: Monitors fans out   *)
(* scalars and summaries to a list of TrainingMonitor sinks and to its own *)
(* ScalarHistory.  Strings are sequences of one-character strings, so that *)
(* the regular expression and the suffix test of put_summary are computed. *)
(* The sinks JSONWriter, ScalarPrinter and TFSummaryWriter are followed     *)
(* through the step and epoch boundaries of a training run.                *)
(***************************************************************************)
EXTENDS Integers, Sequences, FiniteSets, TLC

VARIABLES
    obj,        \* the sink objects: id -> attributes (HIST is Monitors._scalar_history)
    callerList, \* the list the caller passed to Monitors(...), still owned by the caller
    monitors,   \* Monitors._monitors
    hub,        \* the Monitors object itself: trainer bound, lifecycle calls received
    nputs,      \* number of hub put calls made so far
    last,       \* the most recent call: what was called, with what, and how it ended
    env         \* around the objects: logger.LOG_DIR, the file stat.json, the
                \* trainer's counters and position, the lines logged

vars == <<obj, callerList, monitors, hub, nputs, last, env>>

-----------------------------------------------------------------------------
(* Bounds of the model *)

\* hub put calls (put, put_scalar, put_summary) in one run
MaxPuts == 2

\* pieces a generated tag is made of
MaxParts == 4

\* training steps in one run
MaxSteps == 2

-----------------------------------------------------------------------------
(* Strings *)

tower == <<"t", "o", "w", "e", "r">>

suffix == <<"-", "s", "u", "m", "m", "a", "r", "y">>

\* the character class [p0-9]
ClassChars == {"p", "0", "1", "2", "3", "4", "5", "6", "7", "8", "9"}

endswith(s, suf) ==
    /\ Len(s) >= Len(suf)
    /\ SubSeq(s, Len(s) - Len(suf) + 1, Len(s)) = suf

\* length of the longest run of [p0-9] that starts at position i
RECURSIVE ClassRun(_, _)
ClassRun(s, i) ==
    IF i <= Len(s) /\ s[i] \in ClassChars THEN 1 + ClassRun(s, i + 1) ELSE 0

\* faulty variant: the pattern 'tower[p0-9]/' with the + left out
MatchEnd_one_char(s, i) ==
    IF i + 6 <= Len(s) /\ SubSeq(s, i, i + 4) = tower
                       /\ s[i + 5] \in ClassChars /\ s[i + 6] = "/"
    THEN i + 6
    ELSE 0

\* re.match of 'tower[p0-9]+/' at position i: the last position of the match,
\* or 0 when there is none.  The class excludes '/', so the greedy run is the
\* only candidate.
MatchEnd(s, i) ==
    IF i + 4 <= Len(s) /\ SubSeq(s, i, i + 4) = tower
    THEN LET r == ClassRun(s, i + 5)
         IN  IF r >= 1 /\ i + 5 + r <= Len(s) /\ s[i + 5 + r] = "/"
             THEN i + 5 + r
             ELSE 0
    ELSE 0

\* re.sub('tower[p0-9]+/', '', s) from position i on: one left-to-right pass
\* over non-overlapping matches; the output is not scanned again.
RECURSIVE SubFrom(_, _)
SubFrom(s, i) ==
    IF i > Len(s) THEN <<>>
    ELSE LET e == MatchEnd(s, i)
         IN  IF e > 0 THEN SubFrom(s, e + 1)
             ELSE <<s[i]>> \o SubFrom(s, i + 1)

re_sub_tower(s) == SubFrom(s, 1)

strip_suffix(s) ==
    IF endswith(s, suffix) THEN SubSeq(s, 1, Len(s) - Len(suffix)) ELSE s

\* the tag put_summary dispatches for a simple_value field
NormalizeTag(tag) == strip_suffix(re_sub_tower(tag))

-----------------------------------------------------------------------------
(* Values *)

\* a Python float
F(x) == [t |-> "float", v |-> x]

\* a str holding the decimal text of x: float() parses it
NumStr(x) == [t |-> "numstr", v |-> x]

\* a str that float() rejects
Junk == [t |-> "junk", v |-> 0]

NoVal == [t |-> "none", v |-> 0]

CanFloat(val) == val.t \in {"float", "numstr"}

\* float(val), where it does not raise
float(val) == F(val.v)

-----------------------------------------------------------------------------
(* Dictionaries: a dict is a function whose DOMAIN is its key set *)

EmptyMap == [k \in {} |-> NoVal]

MapPut(m, k, v) == [x \in (DOMAIN m) \cup {k} |-> IF x = k THEN v ELSE m[x]]

\* defaultdict(list).__getitem__: a missing key is inserted with an empty list
DefaultGet(m, k) == IF k \in DOMAIN m THEN m ELSE MapPut(m, k, <<>>)

-----------------------------------------------------------------------------
(* Events a sink can be handed *)

NoRec == <<>>

NoName == <<>>

ScalarEv(name, val) == [ch |-> "scalar", name |-> name, val |-> val, rec |-> NoRec]

SummaryEv(rec) == [ch |-> "summary", name |-> NoName, val |-> NoVal, rec |-> rec]

\* one tf.Summary.Value
Field(tag, which, val) == [tag |-> tag, which |-> which, val |-> val]

-----------------------------------------------------------------------------
(* The sink objects.  kind is the class; nsetup = 0 means _setup_graph never *)
(* ran, so the attributes it creates do not exist.  log holds the calls the  *)
(* sink completed during the hub call in progress (or the last one).         *)

HIST == 0

\* not a sink: the record of the order in which the sinks completed their
\* calls during the hub call in progress, kept beside the sinks
TRACE == 5

TraceEntry(m, ev) ==
    [sink |-> m, ch |-> ev.ch, name |-> ev.name, val |-> ev.val, rec |-> ev.rec]

Traced(o, m, ev) == [o EXCEPT ![TRACE].log = Append(@, TraceEntry(m, ev))]

NewSink(kind) ==
    [kind      |-> kind,
     nsetup    |-> 0,
     nafter    |-> 0,
     stat_now  |-> EmptyMap,
     dic       |-> EmptyMap,
     writer    |-> "none",
     written   |-> <<>>,
     log       |-> <<>>,
     stats        |-> <<>>,
     total        |-> 0,
     last_gs      |-> 0,
     enable_step  |-> FALSE,
     enable_epoch |-> TRUE,
     whitelist    |-> "None",
     blacklist    |-> {},
     flushed      |-> 0,
     nstep        |-> 0,
     nepoch       |-> 0]

Ok(s) == [sink |-> s, err |-> "none"]

Raise(s, e) == [sink |-> s, err |-> e]

Logged(s, ev) == [s EXCEPT !.log = Append(@, ev)]

\* the file stat.json: absent, or holding what json.dump wrote
NoFile == [exists |-> FALSE, list |-> FALSE, rows |-> <<>>]

\* json.dump(self._stats, f): the text of a JSON array of the rows
json_dump(stats) == [exists |-> TRUE, list |-> TRUE, rows |-> stats]

\* json.load(f) of a file that holds a JSON array
json_load(file) == file.rows

\* faulty variant: an existing stat.json is ignored
JSONWriter_setup_graph_fresh(s, e) ==
    Ok([s EXCEPT !.nsetup = @ + 1, !.stats = <<>>,
                 !.stat_now = EmptyMap, !.last_gs = -1,
                 !.total = e.steps_per_epoch])

\* JSONWriter._setup_graph: an existing stat.json is loaded and must hold a
\* list; the assert comes after self._stats is assigned and before
\* self._stat_now exists
JSONWriter_setup_graph(s, e) ==
    IF e.file.exists
    THEN IF e.file.list
         THEN Ok([s EXCEPT !.nsetup = @ + 1, !.stats = json_load(e.file),
                           !.stat_now = EmptyMap, !.last_gs = -1,
                           !.total = e.steps_per_epoch])
         ELSE Raise(s, "AssertionError")
    ELSE Ok([s EXCEPT !.nsetup = @ + 1, !.stats = <<>>,
                      !.stat_now = EmptyMap, !.last_gs = -1,
                      !.total = e.steps_per_epoch])

\* ScalarPrinter._setup_graph
ScalarPrinter_setup_graph(s, e) ==
    Ok([s EXCEPT !.nsetup = @ + 1, !.dic = EmptyMap, !.total = e.steps_per_epoch])

\* TrainingMonitor.setup_graph on a sink of each class
Sink_setup_graph(s, e) ==
    LET t == [s EXCEPT !.nsetup = @ + 1]
    IN  CASE s.kind = "json"    -> JSONWriter_setup_graph(s, e)
          [] s.kind = "printer" -> ScalarPrinter_setup_graph(s, e)
          [] s.kind = "hist"    -> Ok([t EXCEPT !.dic = EmptyMap])
          [] s.kind = "tf"      -> Ok([t EXCEPT !.writer = "open"])
          [] OTHER              -> Ok(t)

\* JSONWriter.put_scalar: float(val) is evaluated before self._stat_now
JSONWriter_put_scalar(s, name, val) ==
    IF ~CanFloat(val) THEN Raise(s, "ValueError")
    ELSE IF s.nsetup = 0 THEN Raise(s, "AttributeError")
    ELSE Ok([s EXCEPT !.stat_now = MapPut(@, name, float(val))])

\* faulty variant: the first value pushed for a name is kept
ScalarPrinter_put_scalar_first(s, name, val) ==
    IF ~CanFloat(val) THEN Raise(s, "ValueError")
    ELSE IF s.nsetup = 0 THEN Raise(s, "AttributeError")
    ELSE IF name \in DOMAIN s.dic THEN Ok(s)
    ELSE Ok([s EXCEPT !.dic = MapPut(@, name, float(val))])

\* ScalarPrinter.put_scalar
ScalarPrinter_put_scalar(s, name, val) ==
    IF ~CanFloat(val) THEN Raise(s, "ValueError")
    ELSE IF s.nsetup = 0 THEN Raise(s, "AttributeError")
    ELSE Ok([s EXCEPT !.dic = MapPut(@, name, float(val))])

\* faulty variant: the list for the name is replaced instead of appended to
ScalarHistory_put_scalar_overwrite(s, name, val) ==
    IF s.nsetup = 0 THEN Raise(s, "AttributeError")
    ELSE IF ~CanFloat(val)
         THEN Raise([s EXCEPT !.dic = DefaultGet(@, name)], "ValueError")
         ELSE Ok([s EXCEPT !.dic = MapPut(@, name, <<float(val)>>)])

\* ScalarHistory.put_scalar: self._dic[name] is looked up (and created) first,
\* then float(val) is evaluated, then the append happens
ScalarHistory_put_scalar(s, name, val) ==
    IF s.nsetup = 0 THEN Raise(s, "AttributeError")
    ELSE IF ~CanFloat(val)
         THEN Raise([s EXCEPT !.dic = DefaultGet(@, name)], "ValueError")
         ELSE Ok([s EXCEPT !.dic =
                     MapPut(@, name, Append(DefaultGet(@, name)[name], float(val)))])

\* TrainingMonitor.put_scalar calls self.put, which does nothing
TrainingMonitor_put_scalar(s, name, val) == Ok(s)

\* m.put_scalar(name, val) by class; a call that returns is logged
Sink_put_scalar(s, name, val) ==
    LET r == CASE s.kind = "json"    -> JSONWriter_put_scalar(s, name, val)
               [] s.kind = "printer" -> ScalarPrinter_put_scalar(s, name, val)
               [] s.kind = "hist"    -> ScalarHistory_put_scalar(s, name, val)
               [] OTHER              -> TrainingMonitor_put_scalar(s, name, val)
    IN  IF r.err = "none" THEN Ok(Logged(r.sink, ScalarEv(name, val))) ELSE r

\* TFSummaryWriter.put_summary: self._writer.add_summary(summary, self.global_step)
TFSummaryWriter_put_summary(s, summary) ==
    IF s.nsetup = 0 THEN Raise(s, "AttributeError")
    ELSE Ok([s EXCEPT !.written = Append(@, summary)])

\* TrainingMonitor.put_summary does nothing
TrainingMonitor_put_summary(s, summary) == Ok(s)

\* m.put_summary(summary) by class; a call that returns is logged
Sink_put_summary(s, summary) ==
    LET r == CASE s.kind = "tf" -> TFSummaryWriter_put_summary(s, summary)
               [] OTHER         -> TrainingMonitor_put_summary(s, summary)
    IN  IF r.err = "none" THEN Ok(Logged(r.sink, SummaryEv(summary))) ELSE r

\* TFSummaryWriter._after_train closes the writer; no other class defines it
Sink_after_train(s) ==
    LET t == [s EXCEPT !.nafter = @ + 1]
    IN  IF s.kind = "tf"
        THEN IF s.nsetup = 0 THEN Raise(t, "AttributeError")
             ELSE Ok([t EXCEPT !.writer = "closed"])
        ELSE Ok(t)

-----------------------------------------------------------------------------
(* The sinks at step and epoch boundaries *)

\* the characters of the names used, in ASCII order
ascii ==
    <<"-", "/", "0", "1", "2", "3", "4", "5", "6", "7", "8", "9", "_",
      "a", "b", "c", "d", "e", "f", "g", "h", "i", "j", "k", "l", "m",
      "n", "o", "p", "q", "r", "s", "t", "u", "v", "w", "x", "y", "z">>

ord(c) == CHOOSE i \in DOMAIN ascii : ascii[i] = c

\* a < b for two str
RECURSIVE StrLess(_, _)
StrLess(a, b) ==
    IF b = <<>> THEN FALSE
    ELSE IF a = <<>> THEN TRUE
    ELSE IF Head(a) = Head(b) THEN StrLess(Tail(a), Tail(b))
    ELSE ord(Head(a)) < ord(Head(b))

\* sorted(keys)
RECURSIVE sorted(_)
sorted(keys) ==
    IF keys = {} THEN <<>>
    ELSE LET k == CHOOSE x \in keys : \A y \in keys \ {x} : StrLess(x, y)
         IN  <<k>> \o sorted(keys \ {k})

\* an int, as epoch_num and global_step are
I(n) == [t |-> "int", v |-> n]

epoch_num == <<"e", "p", "o", "c", "h", "_", "n", "u", "m">>

global_step == <<"g", "l", "o", "b", "a", "l", "_", "s", "t", "e", "p">>

\* the number of decimal digits of n > 0
RECURSIVE Digits(_)
Digits(n) == IF n < 10 THEN 1 ELSE 1 + Digits(n \div 10)

RECURSIVE Pow10(_)
Pow10(k) == IF k = 0 THEN 1 ELSE 10 * Pow10(k - 1)

\* '{:.5g}'.format(v): the number the text shows, v kept to five significant
\* digits (v >= 0 in the unit the floats of the run are given in)
format_5g(val) ==
    IF val.v < 100000 THEN val.v
    ELSE LET unit == Pow10(Digits(val.v) - 5)
         IN  ((val.v + unit \div 2) \div unit) * unit

\* logger.info('{}: {:.5g}'.format(k, v))
Line(k, v) == [name |-> k, text |-> format_5g(v)]

\* what a call on a sink at a boundary gives back: the sink, the surroundings
Done(s, e) == [sink |-> s, env |-> e, err |-> "none"]

Failed(s, e, err) == [sink |-> s, env |-> e, err |-> err]

\* JSONWriter._write_stat: the rows go to a temporary file which is then moved
\* over stat.json; io says whether the disk takes the write.  An IOError is
\* caught and logged, stat.json stays as it was.
JSONWriter_write_stat(s, e, io) ==
    IF io = "ok" THEN [e EXCEPT !.file = json_dump(s.stats)]
    ELSE [e EXCEPT !.nexc = @ + 1]

\* faulty variant: the pending row is written whether it is empty or not
JSONWriter_push_always(s, e, io) ==
    IF s.nsetup = 0 THEN Failed(s, e, "AttributeError")
    ELSE LET row == MapPut(MapPut(s.stat_now, epoch_num, I(e.epoch_num)),
                           global_step, I(e.global_step))
             t == [s EXCEPT !.stats = Append(@, row), !.stat_now = EmptyMap]
         IN  Done(t, JSONWriter_write_stat(t, e, io))

\* faulty variant: the row is written first and appended only if that worked
JSONWriter_push_write_first(s, e, io) ==
    IF s.nsetup = 0 THEN Failed(s, e, "AttributeError")
    ELSE IF DOMAIN s.stat_now = {} THEN Done(s, e)
    ELSE LET row == MapPut(MapPut(s.stat_now, epoch_num, I(e.epoch_num)),
                           global_step, I(e.global_step))
             t == [s EXCEPT !.stats = Append(@, row), !.stat_now = EmptyMap]
         IN  IF io = "ok" THEN Done(t, JSONWriter_write_stat(t, e, io))
             ELSE Done([s EXCEPT !.stat_now = EmptyMap],
                       JSONWriter_write_stat(s, e, io))

\* faulty variant: the pending row is kept after it was appended
JSONWriter_push_keep_pending(s, e, io) ==
    IF s.nsetup = 0 THEN Failed(s, e, "AttributeError")
    ELSE IF DOMAIN s.stat_now = {} THEN Done(s, e)
    ELSE LET row == MapPut(MapPut(s.stat_now, epoch_num, I(e.epoch_num)),
                           global_step, I(e.global_step))
             t == [s EXCEPT !.stats = Append(@, row)]
         IN  Done(t, JSONWriter_write_stat(t, e, io))

\* JSONWriter._push: a non-empty pending row is stamped with the trainer's
\* epoch_num and global_step, appended to the rows and replaced by a new empty
\* dict; then all rows are written
JSONWriter_push(s, e, io) ==
    IF s.nsetup = 0 THEN Failed(s, e, "AttributeError")
    ELSE IF DOMAIN s.stat_now = {} THEN Done(s, e)
    ELSE LET row == MapPut(MapPut(s.stat_now, epoch_num, I(e.epoch_num)),
                           global_step, I(e.global_step))
             t == [s EXCEPT !.stats = Append(@, row), !.stat_now = EmptyMap]
         IN  Done(t, JSONWriter_write_stat(t, e, io))

\* faulty variant: the last step of an epoch flushes like any other
JSONWriter_trigger_step_every(s, e, io) == JSONWriter_push(s, e, io)

\* JSONWriter._trigger_step
JSONWriter_trigger_step(s, e, io) ==
    IF s.nsetup = 0 THEN Failed(s, e, "AttributeError")
    ELSE IF e.local_step # s.total - 1 THEN JSONWriter_push(s, e, io)
    ELSE Done(s, e)

\* JSONWriter._trigger_epoch
JSONWriter_trigger_epoch(s, e, io) == JSONWriter_push(s, e, io)

\* the lines _print_stat logs from entry i of the sorted keys on
RECURSIVE print_lines(_, _, _)
print_lines(s, keys, i) ==
    IF i > Len(keys) THEN <<>>
    ELSE LET k == keys[i]
             rest == print_lines(s, keys, i + 1)
         IN  IF (s.whitelist = "None" \/ k \in s.whitelist) /\ k \notin s.blacklist
             THEN <<Line(k, s.dic[k])>> \o rest
             ELSE rest

\* faulty variant: the pending values stay after they were printed
ScalarPrinter_print_stat_keep(s, e) ==
    IF s.nsetup = 0 THEN Failed(s, e, "AttributeError")
    ELSE Done(s, [e EXCEPT !.console = @ \o print_lines(s, sorted(DOMAIN s.dic), 1)])

\* ScalarPrinter._print_stat
ScalarPrinter_print_stat(s, e) ==
    IF s.nsetup = 0 THEN Failed(s, e, "AttributeError")
    ELSE Done([s EXCEPT !.dic = EmptyMap],
              [e EXCEPT !.console = @ \o print_lines(s, sorted(DOMAIN s.dic), 1)])

\* ScalarPrinter._trigger_step
ScalarPrinter_trigger_step(s, e) ==
    IF s.enable_step
    THEN IF s.nsetup = 0 THEN Failed(s, e, "AttributeError")
         ELSE IF e.local_step # s.total - 1 THEN ScalarPrinter_print_stat(s, e)
         ELSE IF ~s.enable_epoch THEN ScalarPrinter_print_stat(s, e)
         ELSE Done(s, e)
    ELSE Done(s, e)

\* ScalarPrinter._trigger_epoch
ScalarPrinter_trigger_epoch(s, e) ==
    IF s.enable_epoch THEN ScalarPrinter_print_stat(s, e) ELSE Done(s, e)

\* TFSummaryWriter._trigger: self._writer.flush()
TFSummaryWriter_trigger(s, e) ==
    IF s.nsetup = 0 THEN Failed(s, e, "AttributeError")
    ELSE Done([s EXCEPT !.flushed = Len(s.written)], e)

\* Callback.trigger_step on a sink calls the _trigger_step of its class; the
\* classes that define none inherit one that does nothing
Sink_trigger_step(s, e, io) ==
    LET t == [s EXCEPT !.nstep = @ + 1]
    IN  CASE s.kind = "json"    -> JSONWriter_trigger_step(t, e, io)
          [] s.kind = "printer" -> ScalarPrinter_trigger_step(t, e)
          [] OTHER              -> Done(t, e)

\* Callback.trigger_epoch on a sink calls _trigger_epoch, which by default
\* calls _trigger
Sink_trigger_epoch(s, e, io) ==
    LET t == [s EXCEPT !.nepoch = @ + 1]
    IN  CASE s.kind = "json"    -> JSONWriter_trigger_epoch(t, e, io)
          [] s.kind = "printer" -> ScalarPrinter_trigger_epoch(t, e)
          [] s.kind = "tf"      -> TFSummaryWriter_trigger(t, e)
          [] OTHER              -> Done(t, e)

\* TFSummaryWriter.__new__, JSONWriter.__new__: without logger.LOG_DIR a
\* NoOpMonitor is returned in place of an object of the class
TFSummaryWriter_new(log_dir) == IF log_dir THEN "tf" ELSE "noop"

\* faulty variant: a JSONWriter is built whether there is a log directory or not
JSONWriter_new_always(log_dir) == "json"

JSONWriter_new(log_dir) == IF log_dir THEN "json" ELSE "noop"

\* faulty variant: the first element is returned instead of the last
ScalarHistory_get_latest_first(s, name) ==
    IF s.nsetup = 0 THEN [err |-> "AttributeError", ret |-> NoVal, sink |-> s]
    ELSE LET d == DefaultGet(s.dic, name)
             hist == d[name]
         IN  IF Len(hist) = 0
             THEN [err |-> "KeyError", ret |-> NoVal, sink |-> [s EXCEPT !.dic = d]]
             ELSE [err |-> "none", ret |-> hist[1], sink |-> [s EXCEPT !.dic = d]]

\* faulty variant: a plain dict lookup, so a name never written raises
ScalarHistory_get_history_plain(s, name) ==
    IF s.nsetup = 0 THEN [err |-> "AttributeError", ret |-> <<>>, sink |-> s]
    ELSE IF name \in DOMAIN s.dic
         THEN [err |-> "none", ret |-> s.dic[name], sink |-> s]
         ELSE [err |-> "KeyError", ret |-> <<>>, sink |-> s]

\* ScalarHistory.get_latest: [result, dictionary afterwards]
ScalarHistory_get_latest(s, name) ==
    IF s.nsetup = 0 THEN [err |-> "AttributeError", ret |-> NoVal, sink |-> s]
    ELSE LET d == DefaultGet(s.dic, name)
             hist == d[name]
         IN  IF Len(hist) = 0
             THEN [err |-> "KeyError", ret |-> NoVal, sink |-> [s EXCEPT !.dic = d]]
             ELSE [err |-> "none", ret |-> hist[Len(hist)], sink |-> [s EXCEPT !.dic = d]]

\* ScalarHistory.get_history
ScalarHistory_get_history(s, name) ==
    IF s.nsetup = 0 THEN [err |-> "AttributeError", ret |-> <<>>, sink |-> s]
    ELSE LET d == DefaultGet(s.dic, name)
         IN  [err |-> "none", ret |-> d[name], sink |-> [s EXCEPT !.dic = d]]


-----------------------------------------------------------------------------
(* Monitors *)

\* faulty variant: the history is left out of the list
Monitors_init_no_history(mons) == mons

\* Monitors.__init__: a new list, the caller's sinks followed by the history
Monitors_init(mons) == mons \o <<HIST>>

HubOk(o) == [obj |-> o, err |-> "none"]

\* Monitors._dispatch_put_summary: in list order, stopping where a sink raises
RECURSIVE dispatch_put_summary(_, _, _)
dispatch_put_summary(ms, o, summary) ==
    IF ms = <<>> THEN HubOk(o)
    ELSE LET m == Head(ms)
             r == Sink_put_summary(o[m], summary)
             o2 == [o EXCEPT ![m] = r.sink]
         IN  IF r.err # "none" THEN [obj |-> o2, err |-> r.err]
             ELSE dispatch_put_summary(Tail(ms), Traced(o2, m, SummaryEv(summary)),
                                       summary)

\* Monitors._dispatch_put_scalar
RECURSIVE dispatch_put_scalar(_, _, _, _)
dispatch_put_scalar(ms, o, name, val) ==
    IF ms = <<>> THEN HubOk(o)
    ELSE LET m == Head(ms)
             r == Sink_put_scalar(o[m], name, val)
             o2 == [o EXCEPT ![m] = r.sink]
         IN  IF r.err # "none" THEN [obj |-> o2, err |-> r.err]
             ELSE dispatch_put_scalar(Tail(ms), Traced(o2, m, ScalarEv(name, val)),
                                      name, val)

RECURSIVE put_summary_values(_, _, _, _)

\* faulty variant: each scalar also goes to the history directly, a second time
put_summary_values_twice(ms, o, rec, i) ==
    IF i > Len(rec) THEN HubOk(o)
    ELSE IF rec[i].which = "simple_value"
         THEN LET r == dispatch_put_scalar(ms \o <<HIST>>, o,
                                           NormalizeTag(rec[i].tag), rec[i].val)
              IN  IF r.err # "none" THEN r
                  ELSE put_summary_values(ms, r.obj, rec, i + 1)
         ELSE put_summary_values(ms, o, rec, i + 1)

\* the loop of Monitors.put_summary over summary.value, from field i on
put_summary_values(ms, o, rec, i) ==
    IF i > Len(rec) THEN HubOk(o)
    ELSE IF rec[i].which = "simple_value"
         THEN LET r == dispatch_put_scalar(ms, o, NormalizeTag(rec[i].tag), rec[i].val)
              IN  IF r.err # "none" THEN r
                  ELSE put_summary_values(ms, r.obj, rec, i + 1)
         ELSE put_summary_values(ms, o, rec, i + 1)

\* Monitors.put_summary.  inp.form says what was passed: a tf.Summary ("obj"),
\* its serialized bytes ("bytes"), bytes that do not parse ("badbytes"), or
\* an object of another type ("other").
Monitors_put_summary(ms, o, inp) ==
    IF inp.form = "badbytes" THEN [obj |-> o, err |-> "DecodeError"]
    ELSE IF inp.form = "other" THEN [obj |-> o, err |-> "AssertionError"]
    ELSE LET r == dispatch_put_summary(ms, o, inp.rec)
         IN  IF r.err # "none" THEN r
             ELSE put_summary_values(ms, r.obj, inp.rec, 1)

\* faulty variant: the synthesized summary is never dispatched
Monitors_put_scalar_no_summary(ms, o, name, val) ==
    dispatch_put_scalar(ms, o, name, val)

\* faulty variant: the synthesized summary goes out before the scalar
Monitors_put_scalar_summary_first(ms, o, name, val) ==
    IF val.t # "float" THEN [obj |-> o, err |-> "TypeError"]
    ELSE LET r == dispatch_put_summary(ms, o, <<Field(name, "simple_value", val)>>)
         IN  IF r.err # "none" THEN r
             ELSE dispatch_put_scalar(ms, r.obj, name, val)

\* Monitors.put_scalar.  tf.Summary.Value takes a number for simple_value and
\* raises TypeError for a str.
Monitors_put_scalar(ms, o, name, val) ==
    LET r == dispatch_put_scalar(ms, o, name, val)
    IN  IF r.err # "none" THEN r
        ELSE IF val.t # "float" THEN [obj |-> r.obj, err |-> "TypeError"]
        ELSE dispatch_put_summary(ms, r.obj, <<Field(name, "simple_value", val)>>)

\* faulty variant: val is passed on without float(val)
Monitors_put_no_float(ms, o, name, val) == Monitors_put_scalar(ms, o, name, val)

\* Monitors.put
Monitors_put(ms, o, name, val) ==
    IF ~CanFloat(val) THEN [obj |-> o, err |-> "ValueError"]
    ELSE Monitors_put_scalar(ms, o, name, float(val))

\* faulty variant: every sink of the list is set up
Monitors_setup_graph_all(ms, o, e) ==
    [i \in DOMAIN o |-> IF i \in {ms[k] : k \in DOMAIN ms}
                        THEN Sink_setup_graph(o[i], e).sink ELSE o[i]]

\* Monitors._setup_graph: only the history is set up
Monitors_setup_graph(ms, o, e) == [o EXCEPT ![HIST] = Sink_setup_graph(@, e).sink]

RECURSIVE after_train_all(_, _)
after_train_all(ms, o) ==
    IF ms = <<>> THEN HubOk(o)
    ELSE LET r == Sink_after_train(o[Head(ms)])
             o2 == [o EXCEPT ![Head(ms)] = r.sink]
         IN  IF r.err # "none" THEN [obj |-> o2, err |-> r.err]
             ELSE after_train_all(Tail(ms), o2)

\* faulty variant: after_train is forwarded to every sink of the list
Monitors_after_train_forward(ms, o) == after_train_all(ms, o)

\* Monitors defines no _after_train: the inherited hook touches no sink
Monitors_after_train(ms, o) == HubOk(o)

\* the result of a hub call at a boundary
HubDone(o, e) == [obj |-> o, env |-> e, err |-> "none"]

\* trigger_step on every sink of ms, in order
RECURSIVE trigger_step_all(_, _, _, _)
trigger_step_all(ms, o, e, io) ==
    IF ms = <<>> THEN HubDone(o, e)
    ELSE LET r == Sink_trigger_step(o[Head(ms)], e, io)
             o2 == [o EXCEPT ![Head(ms)] = r.sink]
         IN  IF r.err # "none" THEN [obj |-> o2, env |-> r.env, err |-> r.err]
             ELSE trigger_step_all(Tail(ms), o2, r.env, io)

\* trigger_epoch on every sink of ms, in order
RECURSIVE trigger_epoch_all(_, _, _, _)
trigger_epoch_all(ms, o, e, io) ==
    IF ms = <<>> THEN HubDone(o, e)
    ELSE LET r == Sink_trigger_epoch(o[Head(ms)], e, io)
             o2 == [o EXCEPT ![Head(ms)] = r.sink]
         IN  IF r.err # "none" THEN [obj |-> o2, env |-> r.env, err |-> r.err]
             ELSE trigger_epoch_all(Tail(ms), o2, r.env, io)

\* faulty variant: the hub passes its step trigger on to every sink
Monitors_trigger_step_forward(ms, o, e, io) == trigger_step_all(ms, o, e, io)

\* Monitors defines no _trigger_step: the inherited one touches no sink
Monitors_trigger_step(ms, o, e, io) == HubDone(o, e)

\* faulty variant: the hub passes its epoch trigger on to every sink
Monitors_trigger_epoch_forward(ms, o, e, io) == trigger_epoch_all(ms, o, e, io)

\* Monitors defines no _trigger_epoch and no _trigger
Monitors_trigger_epoch(ms, o, e, io) == HubDone(o, e)

-----------------------------------------------------------------------------
(* What the trainer and the caller may pass *)

\* caller sinks by id; the class of each
SinkIds == 1 .. 4

KindOf(i) ==
    CASE i = 1 -> "noop"
      [] i = 2 -> "json"
      [] i = 3 -> "printer"
      [] i = 4 -> "tf"
      [] i = TRACE -> "trace"
      [] OTHER -> "hist"

CallerLists == { <<>>, <<4>>, <<3>>, <<1, 2>> }

loss == <<"l", "o", "s", "s">>

xname == <<"x">>

Names == {loss, xname}

tower0_loss_summary == tower \o <<"0", "/">> \o loss \o suffix

towerp1_loss == tower \o <<"p", "1", "/">> \o loss

x_summary == xname \o suffix

img == <<"i", "m", "g">>

Obj(rec) == [form |-> "obj", rec |-> rec]

NoInp == [form |-> "none", rec |-> NoRec]

SummaryInputs ==
    { Obj(<<Field(tower0_loss_summary, "simple_value", F(1)),
            Field(img, "image", NoVal),
            Field(towerp1_loss, "simple_value", F(2))>>),
      Obj(<<Field(img, "image", NoVal)>>),
      [form |-> "bytes", rec |-> <<Field(x_summary, "simple_value", F(2))>>],
      [form |-> "badbytes", rec |-> NoRec],
      [form |-> "other", rec |-> NoRec] }

\* (name, val) arguments of put
PutArgs == Names \X {NumStr(2), Junk}

\* (name, val) arguments of put_scalar
PutScalarArgs == (Names \X {F(1), Junk}) \cup {<<loss, F(2)>>, <<loss, NumStr(1)>>}

-----------------------------------------------------------------------------
(* The state machine *)

Range(q) == {q[k] : k \in DOMAIN q}

ResetLogs(o) == [i \in DOMAIN o |-> [o[i] EXCEPT !.log = <<>>]]

Call(op, name, val, inp, err, ret, hist) ==
    [op |-> op, name |-> name, val |-> val, inp |-> inp,
     err |-> err, ret |-> ret, hist |-> hist]

\* the run is over once any after_train has been called
Ended == hub.nafter > 0 \/ \E i \in DOMAIN obj : obj[i].nafter > 0

\* the trainer sets the hub up before it makes any other call on it
Running == hub.nsetup > 0 /\ ~Ended

\* the trainer has set up every callback it registered
AllSetUp == hub.nsetup > 0 /\ \A k \in DOMAIN monitors : obj[monitors[k]].nsetup > 0

\* the surroundings at the start of a run: the log directory set or not, the
\* file found there, config.steps_per_epoch; the trainer is in the first step
\* of the first epoch, nothing has been logged.  puts_at notes, for each step
\* run, how many hub puts had been made when it ended.
NewEnv(log_dir, file, steps_per_epoch) ==
    [log_dir         |-> log_dir,
     file            |-> file,
     steps_per_epoch |-> steps_per_epoch,
     local_step      |-> 0,
     epoch_num       |-> 1,
     global_step     |-> 0,
     pc              |-> "run",
     console         |-> <<>>,
     nexc            |-> 0,
     puts_at         |-> <<>>]

Init ==
    /\ callerList \in CallerLists
    /\ monitors = Monitors_init(callerList)
    /\ obj = [i \in Range(monitors) \cup {TRACE} |-> NewSink(KindOf(i))]
    /\ hub = [trainer |-> FALSE, nsetup |-> 0, nafter |-> 0]
    /\ nputs = 0
    /\ last = Call("init", NoName, NoVal, NoInp, "none", NoVal, <<>>)
    /\ env = NewEnv(TRUE, NoFile, 2)

\* the trainer calls setup_graph on the hub
HubSetup ==
    /\ ~Ended
    /\ hub.nsetup = 0
    /\ hub' = [hub EXCEPT !.trainer = TRUE, !.nsetup = @ + 1]
    /\ obj' = Monitors_setup_graph(monitors, ResetLogs(obj), env)
    /\ last' = Call("setup_graph", NoName, NoVal, NoInp, "none", NoVal, <<>>)
    /\ UNCHANGED <<callerList, monitors, nputs, env>>

\* the trainer calls setup_graph on a sink it registered itself
SinkSetup(i) ==
    /\ ~Ended
    /\ i \in Range(monitors) \ {HIST}
    /\ obj[i].nsetup = 0
    /\ LET r == Sink_setup_graph(ResetLogs(obj)[i], env)
       IN  /\ obj' = [ResetLogs(obj) EXCEPT ![i] = r.sink]
           /\ last' = Call("sink_setup_graph", NoName, NoVal, NoInp, r.err, NoVal, <<>>)
    /\ UNCHANGED <<callerList, monitors, hub, nputs, env>>

Put(name, val) ==
    /\ Running
    /\ nputs < MaxPuts
    /\ LET r == Monitors_put(monitors, ResetLogs(obj), name, val)
       IN  /\ obj' = r.obj
           /\ last' = Call("put", name, val, NoInp, r.err, NoVal, <<>>)
    /\ nputs' = nputs + 1
    /\ UNCHANGED <<callerList, monitors, hub, env>>

PutScalar(name, val) ==
    /\ Running
    /\ nputs < MaxPuts
    /\ LET r == Monitors_put_scalar(monitors, ResetLogs(obj), name, val)
       IN  /\ obj' = r.obj
           /\ last' = Call("put_scalar", name, val, NoInp, r.err, NoVal, <<>>)
    /\ nputs' = nputs + 1
    /\ UNCHANGED <<callerList, monitors, hub, env>>

PutSummary(inp) ==
    /\ Running
    /\ nputs < MaxPuts
    /\ LET r == Monitors_put_summary(monitors, ResetLogs(obj), inp)
       IN  /\ obj' = r.obj
           /\ last' = Call("put_summary", NoName, NoVal, inp, r.err, NoVal, <<>>)
    /\ nputs' = nputs + 1
    /\ UNCHANGED <<callerList, monitors, hub, env>>

\* Monitors.get_latest
GetLatest(name) ==
    /\ Running
    /\ LET r == ScalarHistory_get_latest(ResetLogs(obj)[HIST], name)
       IN  /\ obj' = [ResetLogs(obj) EXCEPT ![HIST] = r.sink]
           /\ last' = Call("get_latest", name, NoVal, NoInp, r.err, r.ret, <<>>)
    /\ UNCHANGED <<callerList, monitors, hub, nputs, env>>

\* Monitors.get_history
GetHistory(name) ==
    /\ Running
    /\ LET r == ScalarHistory_get_history(ResetLogs(obj)[HIST], name)
       IN  /\ obj' = [ResetLogs(obj) EXCEPT ![HIST] = r.sink]
           /\ last' = Call("get_history", name, NoVal, NoInp, r.err, NoVal, r.ret)
    /\ UNCHANGED <<callerList, monitors, hub, nputs, env>>

\* the trainer calls after_train on the hub
HubAfterTrain ==
    /\ AllSetUp
    /\ hub.nafter = 0
    /\ LET r == Monitors_after_train(monitors, ResetLogs(obj))
       IN  /\ obj' = r.obj
           /\ last' = Call("after_train", NoName, NoVal, NoInp, r.err, NoVal, <<>>)
    /\ hub' = [hub EXCEPT !.nafter = @ + 1]
    /\ UNCHANGED <<callerList, monitors, nputs, env>>

\* the trainer calls after_train on a sink it registered itself
SinkAfterTrain(i) ==
    /\ AllSetUp
    /\ i \in Range(monitors) \ {HIST}
    /\ obj[i].nafter = 0
    /\ LET r == Sink_after_train(ResetLogs(obj)[i])
       IN  /\ obj' = [ResetLogs(obj) EXCEPT ![i] = r.sink]
           /\ last' = Call("sink_after_train", NoName, NoVal, NoInp, r.err, NoVal, <<>>)
    /\ UNCHANGED <<callerList, monitors, hub, nputs, env>>

\* the caller changes its own list after constructing the hub
MutateCallerList ==
    /\ ~Ended
    /\ Monitors_init(callerList) = monitors
    /\ \/ /\ callerList # <<>>
          /\ callerList' = SubSeq(callerList, 1, Len(callerList) - 1)
       \/ /\ callerList = <<>>
          /\ callerList' = <<3>>
    /\ obj' = ResetLogs(obj)
    /\ last' = Call("mutate_list", NoName, NoVal, NoInp, "none", NoVal, <<>>)
    /\ UNCHANGED <<monitors, hub, nputs, env>>

Next ==
    \/ HubSetup
    \/ \E i \in SinkIds : SinkSetup(i)
    \/ \E a \in PutArgs : Put(a[1], a[2])
    \/ \E a \in PutScalarArgs : PutScalar(a[1], a[2])
    \/ \E inp \in SummaryInputs : PutSummary(inp)
    \/ \E name \in Names : GetLatest(name)
    \/ \E name \in Names : GetHistory(name)
    \/ HubAfterTrain
    \/ \E i \in SinkIds : SinkAfterTrain(i)
    \/ MutateCallerList

Spec == Init /\ [][Next]_vars

-----------------------------------------------------------------------------
(* The same hub with no caller sinks, given one scalar field whose tag ranges *)
(* over every concatenation of up to MaxParts pieces and over named tags     *)

Pieces == {tower, <<"0">>, <<"p">>, <<"/">>, <<"x">>, suffix}

RECURSIVE Flatten(_)
Flatten(q) == IF q = <<>> THEN <<>> ELSE Head(q) \o Flatten(Tail(q))

accuracy == <<"a", "c", "c", "u", "r", "a", "c", "y">>

accuracy_summary == accuracy \o suffix

raw_count == <<"r", "a", "w", "_", "c", "o", "u", "n", "t">>

\* removing the inner match leaves text that would match again
tow_tower0_er1_x == <<"t", "o", "w">> \o tower \o <<"0", "/", "e", "r", "1", "/", "x">>

NamedTags == {tower0_loss_summary, accuracy_summary, raw_count, towerp1_loss,
              tow_tower0_er1_x, suffix \o suffix}

NormTags ==
    NamedTags \cup
    {Flatten(q) : q \in UNION {[1 .. n -> Pieces] : n \in 0 .. MaxParts}}

InitNorm ==
    /\ callerList = <<>>
    /\ monitors = Monitors_init(callerList)
    /\ obj = [i \in Range(monitors) \cup {TRACE} |-> NewSink(KindOf(i))]
    /\ hub = [trainer |-> FALSE, nsetup |-> 0, nafter |-> 0]
    /\ nputs = 0
    /\ last = Call("init", NoName, NoVal, NoInp, "none", NoVal, <<>>)
    /\ env = NewEnv(TRUE, NoFile, 2)

\* the first put_summary of a run, with one simple_value field
NormPut(tag) ==
    /\ nputs = 0
    /\ PutSummary(Obj(<<Field(tag, "simple_value", F(1))>>))

NextNorm ==
    \/ HubSetup
    \/ \E tag \in NormTags : NormPut(tag)

SpecNorm == InitNorm /\ [][NextNorm]_vars

-----------------------------------------------------------------------------
(* A training run: the trainer sets up the hub and the sinks it was given,   *)
(* then runs steps; after each step it triggers the step hooks, after the    *)
(* last step of an epoch the epoch hooks, of the hub and of every sink       *)

acc == <<"a", "c", "c">>

\* the floats of the run, in tenths: 0.5, 0.3 and 123456.7
half == F(5)

three_tenths == F(3)

long == F(1234567)

\* (name, val) arguments of put_scalar during the run
RunPutArgs ==
    { <<loss, half>>, <<loss, three_tenths>>, <<acc, long>>, <<global_step, half>> }

\* a stat.json left by an earlier run, and a file that holds no list
OldRow == MapPut(MapPut(MapPut(EmptyMap, loss, F(9)), epoch_num, I(7)),
                 global_step, I(70))

OldFile == json_dump(<<OldRow>>)

NotAList == [exists |-> TRUE, list |-> FALSE, rows |-> <<>>]

\* ScalarPrinter.__init__
ScalarPrinter_init(enable_step, enable_epoch) ==
    [NewSink("printer") EXCEPT !.enable_step = enable_step,
                               !.enable_epoch = enable_epoch,
                               !.whitelist = "None",
                               !.blacklist = {}]

RunConfig(list, log_dir, file, steps, enable_step, enable_epoch) ==
    [list |-> list, log_dir |-> log_dir, file |-> file, steps |-> steps,
     enable_step |-> enable_step, enable_epoch |-> enable_epoch]

\* Monitors([JSONWriter(), ScalarPrinter(..)]) and Monitors([TFSummaryWriter()]),
\* with and without a log directory
RunConfigs ==
    { RunConfig(<<2, 3>>, TRUE, NoFile, n, es, ee) :
          n \in {1, 2}, es \in BOOLEAN, ee \in BOOLEAN }
    \cup { RunConfig(<<2, 3>>, TRUE, f, 2, FALSE, TRUE) : f \in {OldFile, NotAList} }
    \cup { RunConfig(<<2, 3>>, FALSE, f, 2, FALSE, TRUE) : f \in {NoFile, OldFile} }
    \cup { RunConfig(<<4>>, d, NoFile, 1, FALSE, TRUE) : d \in BOOLEAN }

\* the object the caller gets for sink i
Construct(i, c) ==
    CASE KindOf(i) = "json"    -> NewSink(JSONWriter_new(c.log_dir))
      [] KindOf(i) = "tf"      -> NewSink(TFSummaryWriter_new(c.log_dir))
      [] KindOf(i) = "printer" -> ScalarPrinter_init(c.enable_step, c.enable_epoch)
      [] OTHER                 -> NewSink(KindOf(i))

InitRun ==
    \E c \in RunConfigs :
        /\ callerList = c.list
        /\ monitors = Monitors_init(callerList)
        /\ obj = [i \in Range(monitors) \cup {TRACE} |-> Construct(i, c)]
        /\ hub = [trainer |-> FALSE, nsetup |-> 0, nafter |-> 0]
        /\ nputs = 0
        /\ last = Call("init", NoName, NoVal, NoInp, "none", NoVal, <<>>)
        /\ env = NewEnv(c.log_dir, c.file, c.steps)

\* the sinks the trainer registered as callbacks of their own
CallerSinks == SubSeq(monitors, 1, Len(monitors) - 1)

\* a callback pushes a scalar during a step
RunPutScalar(name, val) ==
    /\ env.pc = "run"
    /\ PutScalar(name, val)

\* run_step returns: the global step has advanced
RunStep ==
    /\ AllSetUp
    /\ env.pc = "run"
    /\ env.global_step < MaxSteps
    /\ env' = [env EXCEPT !.global_step = @ + 1, !.pc = "step_hub",
                          !.puts_at = Append(@, nputs)]
    /\ obj' = ResetLogs(obj)
    /\ last' = Call("run_step", NoName, NoVal, NoInp, "none", NoVal, <<>>)
    /\ UNCHANGED <<callerList, monitors, hub, nputs>>

\* the trainer calls trigger_step on the hub
HubTriggerStep(io) ==
    /\ env.pc = "step_hub"
    /\ LET r == Monitors_trigger_step(monitors, ResetLogs(obj), env, io)
       IN  /\ obj' = r.obj
           /\ env' = [r.env EXCEPT !.pc = "step_sinks"]
           /\ last' = Call("trigger_step", NoName, NoVal, NoInp, r.err, NoVal, <<>>)
    /\ UNCHANGED <<callerList, monitors, hub, nputs>>

\* the trainer calls trigger_step on each sink; then the next step begins, or
\* the epoch hooks follow the last step of the epoch
TrainerTriggerStep(io) ==
    /\ env.pc = "step_sinks"
    /\ LET r == trigger_step_all(CallerSinks, ResetLogs(obj), env, io)
       IN  /\ obj' = r.obj
           /\ env' = IF env.local_step = env.steps_per_epoch - 1
                     THEN [r.env EXCEPT !.pc = "epoch_hub"]
                     ELSE [r.env EXCEPT !.pc = "run", !.local_step = @ + 1]
           /\ last' = Call("sinks_trigger_step", NoName, NoVal, NoInp, r.err,
                           NoVal, <<>>)
    /\ UNCHANGED <<callerList, monitors, hub, nputs>>

\* the trainer calls trigger_epoch on the hub
HubTriggerEpoch(io) ==
    /\ env.pc = "epoch_hub"
    /\ LET r == Monitors_trigger_epoch(monitors, ResetLogs(obj), env, io)
       IN  /\ obj' = r.obj
           /\ env' = [r.env EXCEPT !.pc = "epoch_sinks"]
           /\ last' = Call("trigger_epoch", NoName, NoVal, NoInp, r.err, NoVal, <<>>)
    /\ UNCHANGED <<callerList, monitors, hub, nputs>>

\* the trainer calls trigger_epoch on each sink; then the next epoch begins
TrainerTriggerEpoch(io) ==
    /\ env.pc = "epoch_sinks"
    /\ LET r == trigger_epoch_all(CallerSinks, ResetLogs(obj), env, io)
       IN  /\ obj' = r.obj
           /\ env' = [r.env EXCEPT !.pc = "run", !.local_step = 0,
                                   !.epoch_num = @ + 1]
           /\ last' = Call("sinks_trigger_epoch", NoName, NoVal, NoInp, r.err,
                           NoVal, <<>>)
    /\ UNCHANGED <<callerList, monitors, hub, nputs>>

IO == {"ok", "IOError"}

NextRun ==
    \/ HubSetup
    \/ \E i \in SinkIds : SinkSetup(i)
    \/ \E a \in RunPutArgs : RunPutScalar(a[1], a[2])
    \/ RunStep
    \/ \E io \in IO : HubTriggerStep(io)
    \/ \E io \in IO : TrainerTriggerStep(io)
    \/ \E io \in IO : HubTriggerEpoch(io)
    \/ \E io \in IO : TrainerTriggerEpoch(io)

SpecRun == InitRun /\ [][NextRun]_vars

TypeOK ==
    /\ nputs \in 0 .. MaxPuts
    /\ monitors = Monitors_init(SubSeq(monitors, 1, Len(monitors) - 1))

-----------------------------------------------------------------------------
(* What the properties below are stated with *)

IsPrefix(a, b) == Len(a) <= Len(b) /\ SubSeq(b, 1, Len(a)) = a

\* positions i..j of s spell 'tower', one or more of [p0-9], then '/'
IsTowerPrefix(s, i, j) ==
    /\ 1 <= i /\ i + 6 <= j /\ j <= Len(s)
    /\ s[j] = "/"
    /\ \A k \in 1 .. 5 : s[i + k - 1] = tower[k]
    /\ \A k \in (i + 5) .. (j - 1) : s[k] \in ClassChars

\* all such substrings of s, as <<first, last>> positions
TowerPrefixes(s) ==
    {m \in {i \in 1 .. Len(s) : s[i] = "t"} \X {j \in 1 .. Len(s) : s[j] = "/"} :
        IsTowerPrefix(s, m[1], m[2])}

\* the positions of s that lie in no such substring
Uncovered(s) ==
    LET M == TowerPrefixes(s)
    IN  {k \in 1 .. Len(s) : ~\E m \in M : m[1] <= k /\ k <= m[2]}

\* s with every such substring removed
WithoutTowerPrefixes(s) ==
    LET U == Uncovered(s)
        nth(n) == CHOOSE k \in U : Cardinality({u \in U : u <= k}) = n
    IN  [n \in 1 .. Cardinality(U) |-> s[nth(n)]]

\* the name a field is expected to be dispatched under
ExpectedName(tag) ==
    LET r == WithoutTowerPrefixes(tag)
    IN  IF \E pre \in {SubSeq(r, 1, n) : n \in 0 .. Len(r)} : r = pre \o suffix
        THEN SubSeq(r, 1, Len(r) - 8)
        ELSE r

IsScalarField(f) == f.which = "simple_value"

ScalarFields(rec) == SelectSeq(rec, IsScalarField)

\* the scalar events a summary is expected to produce, in field order
ExpectedScalars(rec) ==
    LET sf == ScalarFields(rec)
    IN  [i \in 1 .. Len(sf) |-> ScalarEv(ExpectedName(sf[i].tag), sf[i].val)]

IsScalarEv(ev) == ev.ch = "scalar"

IsSummaryEv(ev) == ev.ch = "summary"

QueryNames == Names \cup {tower0_loss_summary, towerp1_loss, x_summary}

\* what Monitors.get_history / get_latest answer in state o
Hist(o, name) == ScalarHistory_get_history(o[HIST], name)

Latest(o, name) == ScalarHistory_get_latest(o[HIST], name)

\* the values a call that returned records under name, in order
Pushed(call, name) ==
    CASE call.op = "put" /\ call.name = name -> <<F(call.val.v)>>
      [] call.op = "put_scalar" /\ call.name = name -> <<call.val>>
      [] call.op = "put_summary" ->
            LET ev == ExpectedScalars(call.inp.rec)
                forName(e) == e.name = name
                mine == SelectSeq(ev, forName)
            IN  [i \in 1 .. Len(mine) |-> mine[i].val]
      [] OTHER -> <<>>

PutOps == {"put", "put_scalar", "put_summary"}

ReadOps == {"get_latest", "get_history"}

HubSinks == {monitors[k] : k \in DOMAIN monitors}

-----------------------------------------------------------------------------
(* C1 - the history is append-only *)

\* C1: once the hub is set up, every put, put_scalar, put_summary, get_latest
\* and get_history leaves get_history(name), for every name, equal to what it
\* was followed by the values the call recorded under that name, in order; a
\* call that raised may have recorded a value but removes and reorders none.
C1_AppendOnly ==
    [][\A name \in QueryNames :
          LET h == Hist(obj, name).ret
              h2 == Hist(obj', name).ret
          IN  /\ IsPrefix(h, h2)
              /\ (last'.op \in PutOps /\ last'.err = "none")
                     => h2 = h \o Pushed(last', name)
              /\ last'.op \notin PutOps => h2 = h
              /\ (last'.op = "get_history" /\ last'.name = name)
                     => last'.hist = h]_vars

\* a get_history that returned two different values pushed by separate calls
C1_Witness ==
    /\ last.op = "get_history"
    /\ last.hist = <<F(1), F(2)>>
    /\ nputs = 2

-----------------------------------------------------------------------------
(* C2 - latest is last *)

\* C2: in every state of a set-up hub and for every name, get_latest returns
\* the final element of get_history when that is non-empty and raises KeyError
\* when it is empty or the name was never seen; the result of the get_latest
\* call just made agrees with it.
C2_LatestIsLast ==
    hub.nsetup > 0 =>
        /\ \A name \in QueryNames :
              LET h == Hist(obj, name).ret
                  l == Latest(obj, name)
              IN  IF h # <<>>
                  THEN l.err = "none" /\ l.ret = h[Len(h)]
                  ELSE l.err = "KeyError"
        /\ last.op = "get_latest" =>
              LET h == Hist(obj, last.name).ret
              IN  IF h # <<>>
                  THEN last.err = "none" /\ last.ret = h[Len(h)]
                  ELSE last.err = "KeyError"

\* get_latest answered with the last of two different recorded values
C2_Witness ==
    /\ last.op = "get_latest"
    /\ last.err = "none"
    /\ Hist(obj, last.name).ret = <<F(1), F(2)>>
    /\ last.ret = F(2)

-----------------------------------------------------------------------------
(* C3 - reads of an unseen name *)

\* C3: on a set-up hub get_history of a name with no recorded value returns
\* the empty sequence without failing and get_latest of it raises KeyError,
\* whether or not an earlier read created the entry; and no get_latest or
\* get_history call changes what any later read returns.
C3_ReadsChangeNothing ==
    [][last'.op \in ReadOps =>
          /\ \A name \in QueryNames :
                /\ Hist(obj', name).err = Hist(obj, name).err
                /\ Hist(obj', name).ret = Hist(obj, name).ret
                /\ Latest(obj', name).err = Latest(obj, name).err
                /\ Latest(obj', name).ret = Latest(obj, name).ret
                /\ (name \notin DOMAIN obj'[HIST].dic \/ obj'[HIST].dic[name] = <<>>)
                      => /\ Hist(obj', name).err = "none"
                         /\ Hist(obj', name).ret = <<>>
                         /\ Latest(obj', name).err = "KeyError"
          /\ last'.op = "get_history" => last'.err = "none"]_vars

\* get_latest raised for a name whose empty entry an earlier read had created,
\* while the other name's entry was created empty too
C3_Witness ==
    /\ last.op = "get_latest"
    /\ last.err = "KeyError"
    /\ nputs = 0
    /\ \A name \in Names :
          name \in DOMAIN obj[HIST].dic /\ obj[HIST].dic[name] = <<>>

-----------------------------------------------------------------------------
(* C4 - a scalar reaches both channels of every sink *)

\* C4: after a hub put_scalar(name, v) that returned, every sink of the hub's
\* list, the history included, has completed exactly one put_scalar(name, v)
\* and exactly one put_summary, of a record whose only field is name = v.
C4_DualChannel ==
    (last.op = "put_scalar" /\ last.err = "none") =>
        \A i \in HubSinks :
            obj[i].log = << ScalarEv(last.name, last.val),
                            SummaryEv(<<Field(last.name, "simple_value", last.val)>>) >>

\* a put_scalar that returned on a hub with two caller sinks and the history
C4_Witness ==
    /\ last.op = "put_scalar"
    /\ last.err = "none"
    /\ Len(monitors) = 3

-----------------------------------------------------------------------------
(* C5 - the scalars of a summary are delivered once *)

\* C5: after a hub put_summary that returned, every sink of the hub's list has
\* completed put_summary of the record once and, for each scalar field in
\* order, exactly one put_scalar under the normalized name; no other scalar
\* event exists, and the history of each name grew by the number of scalar
\* fields that normalize to it (k entries in all).
C5_ExactlyOnce ==
    [][(last'.op = "put_summary" /\ last'.err = "none") =>
          LET rec == last'.inp.rec
              want == ExpectedScalars(rec)
          IN  /\ \A i \in {monitors'[k] : k \in DOMAIN monitors'} :
                    /\ SelectSeq(obj'[i].log, IsScalarEv) = want
                    /\ SelectSeq(obj'[i].log, IsSummaryEv) = <<SummaryEv(rec)>>
              /\ \A name \in QueryNames :
                    Len(Hist(obj', name).ret) =
                        Len(Hist(obj, name).ret)
                        + Cardinality({n \in 1 .. Len(want) : want[n].name = name})
              /\ \A n \in 1 .. Len(want) : want[n].name \in QueryNames
              /\ Len(want) = Cardinality({n \in 1 .. Len(rec) : IsScalarField(rec[n])})]_vars

\* a record with two scalar fields and one other field went through a hub
\* with a caller sink
C5_Witness ==
    /\ last.op = "put_summary"
    /\ last.err = "none"
    /\ Len(last.inp.rec) = 3
    /\ Len(ScalarFields(last.inp.rec)) = 2
    /\ Len(monitors) >= 2
    /\ Hist(obj, loss).ret = <<F(1), F(2)>>

-----------------------------------------------------------------------------
(* C6 - name normalization, under SpecNorm *)

\* C6: the name put_summary dispatches for a scalar field is the tag with
\* every substring 'tower' + one or more of [p0-9] + '/' removed and then one
\* trailing '-summary' removed: 'tower0/loss-summary' gives 'loss',
\* 'accuracy-summary' gives 'accuracy', 'raw_count' stays as it is.
C6_NameNormalization ==
    (last.op = "put_summary" /\ last.err = "none") =>
        LET sf == ScalarFields(last.inp.rec)
        IN  /\ Len(obj[HIST].log) = 1 + Len(sf)
            /\ \A n \in 1 .. Len(sf) :
                  LET tag == sf[n].tag
                      got == obj[HIST].log[1 + n].name
                  IN  /\ got = ExpectedName(tag)
                      /\ tag = tower0_loss_summary => got = loss
                      /\ tag = accuracy_summary => got = accuracy
                      /\ tag = raw_count => got = raw_count
                      /\ Hist(obj, got).ret # <<>>

\* 'tower0/loss-summary' was dispatched to the history as 'loss'
C6_Witness ==
    /\ last.op = "put_summary"
    /\ last.err = "none"
    /\ Len(last.inp.rec) = 1
    /\ last.inp.rec[1].tag = tower0_loss_summary
    /\ obj[HIST].log[2].name = loss
    /\ Hist(obj, loss).ret = <<F(1)>>

-----------------------------------------------------------------------------
(* C7 - the list is fixed and ends with the history *)

\* C7: the hub's list never changes after construction, whatever the caller
\* does to its own list, and its last element is the history; so after every
\* put, put_scalar and put_summary that returned, the history has completed
\* the scalar event and the summary event of the call.
C7_HistoryAlwaysFed ==
    [][/\ monitors' = monitors
       /\ Len(monitors') >= 1
       /\ monitors'[Len(monitors')] = HIST
       /\ (last'.op \in {"put", "put_scalar"} /\ last'.err = "none")
              => /\ Len(SelectSeq(obj'[HIST].log, IsScalarEv)) = 1
                 /\ Len(SelectSeq(obj'[HIST].log, IsSummaryEv)) = 1
                 /\ obj'[HIST].log[1].name = last'.name
       /\ (last'.op = "put_summary" /\ last'.err = "none")
              => /\ SummaryEv(last'.inp.rec) = obj'[HIST].log[1]
                 /\ Len(obj'[HIST].log) = 1 + Len(ScalarFields(last'.inp.rec))]_vars

\* a put_scalar returned after the caller had changed its own list
C7_Witness ==
    /\ last.op = "put_scalar"
    /\ last.err = "none"
    /\ Monitors_init(callerList) # monitors
    /\ Len(obj[HIST].log) = 2

-----------------------------------------------------------------------------
(* C8 - what hub setup sets up *)

\* C8 as stated: once the hub is set up, every sink of its list has been set
\* up exactly once.
C8_AsStated ==
    hub.nsetup > 0 => \A i \in HubSinks : obj[i].nsetup = 1

\* C8, amended: hub setup binds the trainer and calls setup_graph on the
\* history only; the setup count of every other sink is left as it was.
C8_SetupOnlyHistory ==
    [][last'.op = "setup_graph" =>
          /\ hub'.trainer
          /\ obj'[HIST].nsetup = obj[HIST].nsetup + 1
          /\ \A i \in DOMAIN obj \ {HIST} : obj'[i].nsetup = obj[i].nsetup]_vars

\* right after hub setup on a hub with two caller sinks, neither set up
C8_Witness ==
    /\ last.op = "setup_graph"
    /\ Len(monitors) = 3
    /\ obj[HIST].nsetup = 1
    /\ \A i \in HubSinks \ {HIST} : obj[i].nsetup = 0

-----------------------------------------------------------------------------
(* C9 - where the value is coerced *)

\* C9 as stated: a hub put_scalar whose value float() rejects fails with no
\* sink having completed any event of the call.
C9_AsStated ==
    (last.op = "put_scalar" /\ ~CanFloat(last.val)) =>
        /\ last.err # "none"
        /\ \A i \in HubSinks : obj[i].log = <<>>

\* C9, amended: it is the hub's put that coerces before any dispatch: with a
\* value float() rejects, put raises ValueError and every sink is exactly as
\* before.  put_scalar hands the value to the sinks uncoerced: with such a
\* value it raises too, no sink completes a put_summary, the history completes
\* nothing, and no pending or recorded value changes, but the sinks ahead of
\* the first one that coerces have completed put_scalar.
C9_PutCoerces ==
    [][/\ (last'.op = "put" /\ ~CanFloat(last'.val))
              => /\ last'.err = "ValueError"
                 /\ obj' = ResetLogs(obj)
       /\ (last'.op = "put_scalar" /\ ~CanFloat(last'.val))
              => /\ last'.err # "none"
                 /\ obj'[HIST].log = <<>>
                 /\ \A i \in DOMAIN obj \ {HIST} :
                       /\ SelectSeq(obj'[i].log, IsSummaryEv) = <<>>
                       /\ obj'[i].stat_now = obj[i].stat_now
                       /\ obj'[i].dic = obj[i].dic
                       /\ obj'[i].written = obj[i].written
                 /\ \A name \in QueryNames :
                       Hist(obj', name).ret = Hist(obj, name).ret]_vars

\* put was given a value float() rejects on a hub whose two caller sinks and
\* history were all set up
C9_Witness ==
    /\ last.op = "put"
    /\ last.val = Junk
    /\ Len(monitors) = 3
    /\ \A i \in HubSinks : obj[i].nsetup = 1

-----------------------------------------------------------------------------
(* C10 - hub teardown *)

\* C10 as stated: once after_train has been called on the hub, every sink of
\* its list has had after_train called exactly once.
C10_AsStated ==
    hub.nafter > 0 => \A i \in HubSinks : obj[i].nafter = 1

\* C10, amended: after_train on the hub is forwarded to no sink: it leaves
\* every sink's after_train count and every writer as they were, and returns.
C10_TeardownNotForwarded ==
    [][last'.op = "after_train" =>
          /\ last'.err = "none"
          /\ hub'.nafter = hub.nafter + 1
          /\ \A i \in DOMAIN obj :
                /\ obj'[i].nafter = obj[i].nafter
                /\ obj'[i].writer = obj[i].writer]_vars

\* right after hub teardown, the event writer in the hub's list is still open
C10_Witness ==
    /\ last.op = "after_train"
    /\ \E i \in HubSinks : obj[i].kind = "tf" /\ obj[i].writer = "open"
                                             /\ obj[i].nafter = 0

-----------------------------------------------------------------------------
(* C19 - the order of the fan-out *)

\* one event handed to every sink of the list ms, in list order
RECURSIVE ToAll(_, _)
ToAll(ms, ev) ==
    IF ms = <<>> THEN <<>> ELSE <<TraceEntry(Head(ms), ev)>> \o ToAll(Tail(ms), ev)

\* a sequence of events, each handed to every sink before the next one
RECURSIVE EachToAll(_, _)
EachToAll(ms, evs) ==
    IF evs = <<>> THEN <<>> ELSE ToAll(ms, Head(evs)) \o EachToAll(ms, Tail(evs))

\* the order of deliveries a put call is expected to make when nothing raises
ExpectedTrace(call) ==
    CASE call.op = "put_scalar" ->
            EachToAll(monitors,
                      << ScalarEv(call.name, call.val),
                         SummaryEv(<<Field(call.name, "simple_value", call.val)>>) >>)
      [] call.op = "put" ->
            EachToAll(monitors,
                      << ScalarEv(call.name, F(call.val.v)),
                         SummaryEv(<<Field(call.name, "simple_value", F(call.val.v))>>) >>)
      [] call.op = "put_summary" ->
            EachToAll(monitors,
                      <<SummaryEv(call.inp.rec)>> \o ExpectedScalars(call.inp.rec))
      [] OTHER -> <<>>

\* C19: every hub put delivers in the order of the hub's list, one sink at a
\* time, the history last: put_summary hands the record, its tags as given, to
\* all sinks before the first derived scalar goes to any sink, and then each
\* scalar to all sinks in field order; put_scalar hands the scalar to all sinks
\* before the one-field record goes to any.  A call that raises has made a
\* prefix of these deliveries.
C19_FanOutOrder ==
    /\ monitors[Len(monitors)] = HIST
    /\ last.op \in PutOps =>
          /\ IsPrefix(obj[TRACE].log, ExpectedTrace(last))
          /\ last.err = "none" => obj[TRACE].log = ExpectedTrace(last)
    /\ last.op \notin PutOps => obj[TRACE].log = <<>>

\* a record with two scalar fields went through two caller sinks and the
\* history: three deliveries of the record, then three of each scalar
C19_Witness ==
    /\ last.op = "put_summary"
    /\ last.err = "none"
    /\ Len(monitors) = 3
    /\ Len(ScalarFields(last.inp.rec)) = 2
    /\ Len(obj[TRACE].log) = 9
    /\ obj[TRACE].log[3].sink = HIST /\ obj[TRACE].log[3].ch = "summary"
    /\ obj[TRACE].log[4].sink = monitors[1] /\ obj[TRACE].log[4].name = loss

-----------------------------------------------------------------------------
(* C11 - step and epoch triggers of the hub *)

\* the run's hub was given a JSONWriter that was built with a log directory
HasJson == 2 \in DOMAIN obj /\ obj[2].kind = "json"

\* the run's hub was given a ScalarPrinter
HasPrinter == 3 \in DOMAIN obj /\ obj[3].kind = "printer"

HubTriggerOps == {"trigger_step", "trigger_epoch"}

\* C11 as stated: a step trigger or epoch trigger of the hub reaches every sink
\* of the hub's list once.
C11_AsStated ==
    [][ /\ last'.op = "trigger_step" =>
              \A k \in DOMAIN monitors :
                  obj'[monitors[k]].nstep = obj[monitors[k]].nstep + 1
        /\ last'.op = "trigger_epoch" =>
              \A k \in DOMAIN monitors :
                  obj'[monitors[k]].nepoch = obj[monitors[k]].nepoch + 1 ]_vars

\* C11, amended: a step trigger or epoch trigger of the hub returns having
\* reached no sink: no sink's trigger hook has run, no pending row or value has
\* been flushed or printed, no file written.
C11_TriggersNotForwarded ==
    [][ last'.op \in HubTriggerOps =>
            /\ last'.err = "none"
            /\ \A i \in DOMAIN obj : obj'[i] = ResetLogs(obj)[i]
            /\ env'.file = env.file
            /\ env'.console = env.console
            /\ env'.nexc = env.nexc ]_vars

\* the hub's step trigger has returned, at a step that is not the last of its
\* epoch, and the JSON sink of its list still holds a pending row and has had
\* no step trigger
C11_Witness ==
    /\ last.op = "trigger_step"
    /\ env.local_step # env.steps_per_epoch - 1
    /\ HasJson
    /\ DOMAIN obj[2].stat_now # {}
    /\ obj[2].nstep = 0
    /\ obj[2].stats = <<>>

-----------------------------------------------------------------------------
(* The JSON sink and the console sink at the boundaries of a run *)

SinkTriggerOps == {"sinks_trigger_step", "sinks_trigger_epoch"}

ReservedKeys == {epoch_num, global_step}

\* row is the pending row with the two reserved keys set to the trainer's counters
IsStamped(row, pending, e) ==
    /\ DOMAIN row = DOMAIN pending \cup ReservedKeys
    /\ \A k \in DOMAIN pending \ ReservedKeys : row[k] = pending[k]
    /\ row[epoch_num] = I(e.epoch_num)
    /\ row[global_step] = I(e.global_step)

\* the step from this state to the next flushed the pending row of the JSON sink
Flushes ==
    /\ Len(obj'[2].stats) = Len(obj[2].stats) + 1
    /\ SubSeq(obj'[2].stats, 1, Len(obj[2].stats)) = obj[2].stats
    /\ IsStamped(obj'[2].stats[Len(obj'[2].stats)], obj[2].stat_now, env)
    /\ obj'[2].stat_now = EmptyMap

\* the step left the rows, the pending row and the file of the JSON sink alone
NoFlush ==
    /\ obj'[2].stats = obj[2].stats
    /\ obj'[2].stat_now = obj[2].stat_now
    /\ env'.file = env.file
    /\ env'.nexc = env.nexc

-----------------------------------------------------------------------------
(* C12 - a flush with nothing pending *)

\* C12: a trigger that finds the pending row of the JSON sink empty appends no
\* row and attempts no write, so the rows and the file stay as they are; and a
\* flush leaves the pending row empty, so a second flush with no put_scalar in
\* between is such a trigger.
C12_IdempotentPush ==
    [][ (HasJson /\ last'.op \in SinkTriggerOps) =>
            /\ DOMAIN obj[2].stat_now = {} => NoFlush
            /\ obj'[2].stats # obj[2].stats => DOMAIN obj'[2].stat_now = {} ]_vars

\* with two steps per epoch the row pushed in step 1 was flushed by the step
\* trigger; nothing was pushed in step 2 and the epoch trigger has returned:
\* still one row, in memory and in the file
C12_Witness ==
    /\ HasJson
    /\ last.op = "sinks_trigger_epoch"
    /\ env.steps_per_epoch = 2
    /\ Len(obj[2].stats) = 1
    /\ obj[2].stats[1][global_step] = I(1)
    /\ env.file = json_dump(obj[2].stats)
    /\ env.nexc = 0

-----------------------------------------------------------------------------
(* C13 - when the JSON sink flushes *)

\* C13: the step trigger of the JSON sink flushes a non-empty pending row at
\* every step but the last of an epoch (local_step = steps_per_epoch - 1),
\* where it leaves the row pending; the epoch trigger flushes it.  So a row
\* pending at the end of an epoch is flushed once, by the epoch trigger.
C13_FlushSchedule ==
    [][ (HasJson /\ DOMAIN obj[2].stat_now # {}) =>
            /\ last'.op = "sinks_trigger_step" =>
                  IF env.local_step = env.steps_per_epoch - 1
                  THEN NoFlush
                  ELSE Flushes
            /\ last'.op = "sinks_trigger_epoch" => Flushes ]_vars

\* the step trigger of the last step of an epoch has returned and the row
\* pushed during that step is still pending
C13_Witness ==
    /\ HasJson
    /\ last.op = "sinks_trigger_step"
    /\ env.pc = "epoch_hub"
    /\ env.steps_per_epoch = 2
    /\ DOMAIN obj[2].stat_now # {}
    /\ Len(obj[2].stats) = 1

-----------------------------------------------------------------------------
(* C14 - a hub over a JSON sink and a console sink, two steps per epoch *)

\* Monitors([JSONWriter(), ScalarPrinter()]) with a log directory and two
\* steps per epoch, in its first epoch
Scenario ==
    /\ HasJson /\ HasPrinter
    /\ monitors = <<2, 3, HIST>>
    /\ ~obj[3].enable_step /\ obj[3].enable_epoch
    /\ env.steps_per_epoch = 2
    /\ env.epoch_num = 1

Row(val, epoch, gs) ==
    MapPut(MapPut(MapPut(EmptyMap, loss, val), epoch_num, I(epoch)), global_step, I(gs))

\* put_scalar('loss', 0.5) was the one push before the step-1 trigger
AtStep1 ==
    /\ Scenario
    /\ last'.op = "sinks_trigger_step"
    /\ env.puts_at = <<1>>
    /\ Hist(obj, loss).ret = <<half>>

\* put_scalar('loss', 0.3) was the one push between the step-1 trigger and the
\* step-2 trigger
AtStep2 ==
    /\ Scenario
    /\ last'.op = "sinks_trigger_step"
    /\ env.puts_at = <<1, 2>>
    /\ Hist(obj, loss).ret = <<half, three_tenths>>

\* the epoch trigger that follows
AtEpoch ==
    /\ Scenario
    /\ last'.op = "sinks_trigger_epoch"
    /\ env.puts_at = <<1, 2>>
    /\ Hist(obj, loss).ret = <<half, three_tenths>>

\* C14 as stated: the step-1 trigger flushes nothing; the step-2 and epoch
\* triggers add the row {loss: 0.3, epoch_num: 1, global_step: 2} and print
\* 'loss: 0.3' and nothing else.
C14_AsStated ==
    [][ /\ AtStep1 => obj'[2].stats = obj[2].stats
        /\ AtStep2 => obj'[2].stats = obj[2].stats /\ env'.console = <<>>
        /\ AtEpoch =>
              /\ obj'[2].stats = Append(obj[2].stats, Row(three_tenths, 1, 2))
              /\ env'.console = <<Line(loss, three_tenths)>> ]_vars

\* C14, amended: the step-1 trigger flushes the row {loss: 0.5, epoch_num: 1,
\* global_step: 1}, step 1 not being the last step of the epoch; the step-2
\* trigger flushes nothing; the epoch trigger adds the row {loss: 0.3,
\* epoch_num: 1, global_step: 2}, and 'loss: 0.3' is the one line printed.
C14_Scenario ==
    [][ /\ AtStep1 =>
              /\ obj'[2].stats = Append(obj[2].stats, Row(half, 1, 1))
              /\ env'.console = <<>>
        /\ AtStep2 =>
              /\ obj'[2].stats = obj[2].stats
              /\ obj'[2].stats[Len(obj'[2].stats)] = Row(half, 1, 1)
              /\ obj'[2].stat_now = MapPut(EmptyMap, loss, three_tenths)
              /\ env'.console = <<>>
        /\ AtEpoch =>
              /\ obj[2].stats[Len(obj[2].stats)] = Row(half, 1, 1)
              /\ obj'[2].stats = Append(obj[2].stats, Row(three_tenths, 1, 2))
              /\ env'.console = <<Line(loss, three_tenths)>> ]_vars

\* the scenario has run to the end of its epoch with every write taken
C14_Witness ==
    /\ HasJson /\ HasPrinter
    /\ last.op = "sinks_trigger_epoch"
    /\ env.steps_per_epoch = 2
    /\ ~obj[3].enable_step /\ obj[3].enable_epoch
    /\ env.puts_at = <<1, 2>>
    /\ Hist(obj, loss).ret = <<half, three_tenths>>
    /\ obj[2].stats = <<Row(half, 1, 1), Row(three_tenths, 1, 2)>>
    /\ env.file = json_dump(obj[2].stats)
    /\ env.console = <<Line(loss, three_tenths)>>

-----------------------------------------------------------------------------
(* C15 - a write that fails *)

\* C15: when the write of a flush fails with an IOError the trigger returns
\* normally, the row just appended stays in the rows and stat.json stays as it
\* was; every write that succeeds leaves stat.json holding all rows flushed so
\* far, those whose write failed included.
C15_WriteFailure ==
    [][ (HasJson /\ last'.op \in SinkTriggerOps) =>
            /\ last'.err = "none"
            /\ env'.nexc # env.nexc =>
                  /\ Flushes
                  /\ env'.file = env.file
            /\ (obj'[2].stats # obj[2].stats /\ env'.nexc = env.nexc) =>
                  env'.file = json_dump(obj'[2].stats) ]_vars

\* the write of the first row failed, the write of the second succeeded:
\* stat.json holds both rows
C15_Witness ==
    /\ HasJson
    /\ env.nexc = 1
    /\ Len(obj[2].stats) = 2
    /\ env.file = json_dump(obj[2].stats)

-----------------------------------------------------------------------------
(* C16 - starting from an existing stat.json *)

\* C16: set up where stat.json holds a list of N rows, the JSON sink has those
\* rows; set up where there is no stat.json, it has none.  While the rows in
\* memory are those of the file, a flush of a non-empty pending row whose
\* write succeeds leaves a file of N+1 rows, the first N as they were.
C16_Resume ==
    [][ HasJson =>
            /\ (last'.op = "sink_setup_graph" /\ obj'[2].nsetup # obj[2].nsetup) =>
                  /\ env.file.exists => env.file.list /\ obj'[2].stats = env.file.rows
                  /\ ~env.file.exists => obj'[2].stats = <<>>
            /\ ( /\ last'.op \in SinkTriggerOps
                 /\ obj[2].stats = env.file.rows
                 /\ obj'[2].stats # obj[2].stats
                 /\ env'.nexc = env.nexc ) =>
                  /\ env'.file.exists /\ env'.file.list
                  /\ Len(env'.file.rows) = Len(env.file.rows) + 1
                  /\ SubSeq(env'.file.rows, 1, Len(env.file.rows)) = env.file.rows
                  /\ IsStamped(env'.file.rows[Len(env'.file.rows)],
                               obj[2].stat_now, env) ]_vars

\* the sink was set up over a file of one row and has flushed one row: the
\* file holds the old row and then the new one
C16_Witness ==
    /\ HasJson
    /\ env.file.exists /\ env.file.list
    /\ Len(env.file.rows) = 2
    /\ env.file.rows[1] = OldRow
    /\ env.file.rows[2][epoch_num] = I(1)
    /\ env.nexc = 0

-----------------------------------------------------------------------------
(* C17 - no log directory *)

\* the sinks of the run that were built by JSONWriter() or TFSummaryWriter()
Writers == {i \in {2, 4} : i \in DOMAIN obj}

\* nothing of sink s but the counts of calls it received differs in t
OnlyCalled(s, t) ==
    t = [s EXCEPT !.nsetup = t.nsetup, !.nstep = t.nstep, !.nepoch = t.nepoch,
                  !.log = t.log]

\* C17: built without a log directory, JSONWriter() and TFSummaryWriter() give
\* a NoOpMonitor.  Its setup_graph and its triggers return normally, it
\* completes the put_scalar and the put_summary of every hub put_scalar,
\* before and after it is set up (a sink after it in the list may raise before
\* the put_summary is dispatched); none of these calls changes anything of it,
\* and no file is written.
C17_SoftFail ==
    /\ ~env.log_dir => \A i \in Writers : obj[i].kind = "noop"
    /\ [][ ~env.log_dir =>
               /\ \A i \in Writers : obj'[i].kind = "noop" /\ OnlyCalled(obj[i], obj'[i])
               /\ last'.op # "put_scalar" => last'.err = "none"
               /\ last'.op = "put_scalar" =>
                      \A i \in Writers :
                          obj'[i].log =
                              IF last'.err = "none"
                              THEN << ScalarEv(last'.name, last'.val),
                                      SummaryEv(<<Field(last'.name, "simple_value",
                                                        last'.val)>>) >>
                              ELSE << ScalarEv(last'.name, last'.val) >>
               /\ env'.file = env.file ]_vars

\* without a log directory the object built by JSONWriter() has been through
\* setup_graph, two put_scalar, a step trigger and an epoch trigger, and the
\* stat.json of an earlier run is as it was
C17_Witness ==
    /\ ~env.log_dir
    /\ 2 \in DOMAIN obj
    /\ obj[2].kind = "noop"
    /\ obj[2].nsetup = 1 /\ obj[2].nstep = 2 /\ obj[2].nepoch = 1
    /\ nputs = 2
    /\ Len(Hist(obj, loss).ret) = 2
    /\ last.op = "sinks_trigger_epoch"
    /\ env.file = OldFile

-----------------------------------------------------------------------------
(* C18 - what the console sink prints, and when *)

\* the names of the pending values of printer p that pass both lists
Passing(p) ==
    {k \in DOMAIN p.dic : (p.whitelist = "None" \/ k \in p.whitelist)
                          /\ k \notin p.blacklist}

\* q is one line for each passing pending value of p, in the order of the names
IsPrintOf(q, p) ==
    /\ Len(q) = Cardinality(Passing(p))
    /\ \A i \in DOMAIN q : /\ q[i].name \in Passing(p)
                           /\ q[i].text = format_5g(p.dic[q[i].name])
    /\ \A i, j \in DOMAIN q : i < j => StrLess(q[i].name, q[j].name)

\* the step printed the pending values of the console sink and cleared them
Prints ==
    /\ Len(env'.console) >= Len(env.console)
    /\ SubSeq(env'.console, 1, Len(env.console)) = env.console
    /\ IsPrintOf(SubSeq(env'.console, Len(env.console) + 1, Len(env'.console)), obj[3])
    /\ obj'[3].dic = EmptyMap

NoPrint == env'.console = env.console /\ obj'[3].dic = obj[3].dic

\* C18: a print logs one line for each pending value that passes the two
\* lists, in the order of the names, and clears all pending values.  The step
\* trigger prints if step printing is enabled, except at the last step of an
\* epoch when epoch printing is enabled too; the epoch trigger prints if epoch
\* printing is enabled.  Whatever is enabled, no more lines are printed than
\* values were pushed.
C18_PrintOnce ==
    /\ [](Len(env.console) <= nputs)
    /\ [][ HasPrinter =>
               /\ last'.op = "sinks_trigger_step" =>
                     IF obj[3].enable_step
                        /\ (env.local_step # env.steps_per_epoch - 1
                            \/ ~obj[3].enable_epoch)
                     THEN Prints ELSE NoPrint
               /\ last'.op = "sinks_trigger_epoch" =>
                     IF obj[3].enable_epoch THEN Prints ELSE NoPrint ]_vars

\* with both enabled the step trigger of the last step left two values
\* pending and printed nothing
C18_Witness ==
    /\ HasPrinter
    /\ obj[3].enable_step /\ obj[3].enable_epoch
    /\ last.op = "sinks_trigger_step"
    /\ env.pc = "epoch_hub"
    /\ DOMAIN obj[3].dic = {acc, loss}
    /\ env.console = <<>>

-----------------------------------------------------------------------------
(* C20 - the rows of the JSON sink *)

\* C20 as stated: the pending row is empty after every epoch trigger; a
\* flushed row holds the last value pushed for every name pushed since the
\* flush before, and epoch_num and global_step set to the trainer's counters;
\* rows once appended stay as they are.
C20_AsStated ==
    [][ (HasJson /\ obj[2].nsetup > 0 /\ obj'[2].nsetup > 0) =>
            /\ last'.op = "sinks_trigger_epoch" => obj'[2].stat_now = EmptyMap
            /\ (last'.op = "put_scalar" /\ last'.err = "none") =>
                  obj'[2].stat_now = MapPut(obj[2].stat_now, last'.name, last'.val)
            /\ IsPrefix(obj[2].stats, obj'[2].stats)
            /\ obj'[2].stats # obj[2].stats =>
                  /\ Flushes
                  /\ \A k \in DOMAIN obj[2].stat_now :
                        obj'[2].stats[Len(obj'[2].stats)][k] = obj[2].stat_now[k] ]_vars

\* C20, amended: the same, the last value pushed being held for every name
\* pushed other than epoch_num and global_step, which hold the counters.
C20_NothingLost ==
    [][ (HasJson /\ obj[2].nsetup > 0 /\ obj'[2].nsetup > 0) =>
            /\ last'.op = "sinks_trigger_epoch" => obj'[2].stat_now = EmptyMap
            /\ (last'.op = "put_scalar" /\ last'.err = "none") =>
                  obj'[2].stat_now = MapPut(obj[2].stat_now, last'.name, last'.val)
            /\ IsPrefix(obj[2].stats, obj'[2].stats)
            /\ obj'[2].stats # obj[2].stats =>
                  /\ Flushes
                  /\ \A k \in DOMAIN obj[2].stat_now \ ReservedKeys :
                        obj'[2].stats[Len(obj'[2].stats)][k] = obj[2].stat_now[k] ]_vars

\* loss was pushed twice in one step and flushed: the row holds the second
\* value; a later row has been appended and the first is as it was
C20_Witness ==
    /\ HasJson
    /\ Hist(obj, loss).ret = <<half, three_tenths>>
    /\ Len(obj[2].stats) = 1
    /\ obj[2].stats[1] = Row(three_tenths, 1, 1)
    /\ obj[2].stat_now = EmptyMap
    /\ last.op = "sinks_trigger_epoch"

====
